---- MODULE Spec2Model ----
(***************************************************************************)
(* Model of the AeroHealth breathing-session controller                    *)
(* (src/AeroHealth/js/breathing.js, class BreathingController).            *)
(*                                                                         *)
(* JavaScript is single threaded: every handler and every timer callback   *)
(* runs to its next await/return atomically, so each of them is one        *)
(* action.  Pending setTimeout/setInterval callbacks are kept in the bag   *)
(* timers; time is counted in whole seconds, and callbacks that are due at *)
(* the same instant may run in any order.                                  *)
(***************************************************************************)
EXTENDS Integers, Sequences, FiniteSets, Bags, TLC

\* ---------------------------------------------------------------- bounds
MaxOps     == 3      \* user operations explored in one run
MaxOverrun == 1      \* how far below zero a leaked timer may drive remainingTime
MaxDay     == 3      \* calendar days 0..MaxDay are explored by the streak runs
MaxRecords == 4      \* length of the session log in the streak runs
MaxPracticeDay == 6  \* calendar days 0..MaxPracticeDay in the achievement runs
MaxPractices   == 8  \* length of the session log in the achievement runs
MaxQueued  == 3      \* operations handed to queueOfflineOperation in one run

\* settings.sessionLength values explored (seconds)
SessionLengths == {2, 5}

\* settings.sessionLength of the worked example, and its neighbours
ExampleLength  == 12
ExampleLengths == {ExampleLength - 1, ExampleLength, ExampleLength + 1}

\* ------------------------------------------------------ program constants
CountdownFrom  == 3   \* for (let i = 3; i > 0; i--)
CountdownDelay == 1   \* await this.delay(1000)
TimerPeriod    == 1   \* setInterval(..., 1000)
ResetUIDelay   == 5   \* setTimeout(() => this.resetUI(), 5000)

\* this.sessionTypes[...].pattern = [inhale, hold, exhale]
sessionTypes ==
    [calm   |-> <<4, 0, 4>>,
     energy |-> <<2, 1, 2>>,
     focus  |-> <<4, 4, 4>>,
     sleep  |-> <<4, 7, 8>>]

KnownTypes == DOMAIN sessionTypes

\* a settings.defaultSession value that is not a key of sessionTypes
UnknownType == "unknown"

\* session types the user selects in the explored runs
SelectableTypes == {"calm", "energy"}

NoValue == "none"

\* Date values are instants; DayLength instants make one local calendar day
DayLength == 2

VARIABLES
    isActive, isPaused, currentPhase, cycleCount, sessionStartTime,
    currentSessionType, sessionDuration, remainingTime,
    timers,        \* bag of pending timer callbacks (the browser's timer table)
    sessions,      \* localStorage 'breathingSessions'
    started,       \* number of sessions started so far; stands for Date.now()
    now,           \* the clock read by new Date(), in instants
    streak,        \* analytics.streak
    notified,      \* bag of the achievement notifications shown so far
    firebaseConfig,\* the FirebaseConfig instance: flags and offlineQueue
    firebaseTasks, \* its suspended async calls, and the listeners it registered
    firestore,     \* history: what was queued and what the backend executed
    ops,           \* number of user operations that took effect so far
    fullCycles,    \* history: complete uninterrupted cycles emitted in this session
    last           \* history: what the last step was and what it emitted

vars == <<isActive, isPaused, currentPhase, cycleCount, sessionStartTime,
          currentSessionType, sessionDuration, remainingTime, timers,
          sessions, started, now, streak, notified, firebaseConfig,
          firebaseTasks, firestore, ops, fullCycles, last>>

\* the controller's own fields and the session log (no history variables)
progVars == <<isActive, isPaused, currentPhase, cycleCount, sessionStartTime,
              currentSessionType, sessionDuration, remainingTime, timers,
              sessions>>

\* the FirebaseConfig instance and its environment
firebaseVars == <<firebaseConfig, firebaseTasks, firestore>>

\* ------------------------------------------------------------ state record
\* The handlers are written as functions from state record to state record,
\* so that a handler calling another handler is function composition.
S ==
    [isActive |-> isActive, isPaused |-> isPaused,
     currentPhase |-> currentPhase, cycleCount |-> cycleCount,
     sessionStartTime |-> sessionStartTime,
     currentSessionType |-> currentSessionType,
     sessionDuration |-> sessionDuration, remainingTime |-> remainingTime,
     timers |-> timers, sessions |-> sessions, started |-> started,
     now |-> now, streak |-> streak, notified |-> notified,
     fullCycles |-> fullCycles,
     emit |-> NoValue]

\* ------------------------------------------------------------------ timers
\* kind    "countdown" | "phase" | "interval" | "resetUI"
\* left    whole seconds until the callback is due
\* i       countdown: the loop variable of startCountdown
\* pos     phase: the phase whose delay is awaited
\* pat     phase: the [inhale, hold, exhale] arguments of cycleBreathing
\* tracked interval: this.sessionTimer holds this handle
\* owner   history: the session whose call chain scheduled the timer
\* cyc     history, phase: the session in which this cycle's Inhale was emitted
\* stale   history, phase: status left Cycling during this suspension
\* broken  history, phase: status left Cycling since this cycle's Inhale
Timer(kind, left, i, pos, pat, tracked, owner, cyc) ==
    [kind |-> kind, left |-> left, i |-> i, pos |-> pos, pat |-> pat,
     tracked |-> tracked, owner |-> owner, cyc |-> cyc,
     stale |-> FALSE, broken |-> FALSE]

NoPat == <<0, 0, 0>>

RECURSIVE SumCopies(_, _)
SumCopies(X, B) ==
    IF X = {} THEN 0
    ELSE LET x == CHOOSE y \in X : TRUE
         IN  B[x] + SumCopies(X \ {x}, B)

\* the bag obtained by replacing every element x of B by f[x]
MapBag(f, B) ==
    LET X == BagToSet(B)
    IN  [y \in {f[x] : x \in X} |-> SumCopies({x \in X : f[x] = y}, B)]

AddTimer(B, t) == B (+) SetToBag({t})
DelTimer(B, t) == B (-) SetToBag({t})

Pending(B) == BagToSet(B)

\* ------------------------------------------------------------------ status
\* The spec's status, read off the controller's flags: the countdown of the
\* current session is the await in startSession that has not returned yet.
InCountdown(s) ==
    \E t \in Pending(s.timers) :
        t.kind = "countdown" /\ t.owner = s.sessionStartTime

Status(s) ==
    IF ~s.isActive THEN "Idle"
    ELSE IF s.isPaused THEN "Paused"
    ELSE IF InCountdown(s) THEN "Countdown"
    ELSE "Cycling"

\* history bookkeeping: the status is about to leave Cycling
MarkInterrupted(s) ==
    IF Status(s) = "Cycling"
    THEN [s EXCEPT !.timers =
            MapBag([t \in Pending(@) |->
                       IF t.kind = "phase"
                       THEN [t EXCEPT !.stale = TRUE, !.broken = TRUE]
                       ELSE t], @)]
    ELSE s

\* ---------------------------------------------------------------- handlers
\* this.sessionTypes[this.currentSessionType] is undefined for an unknown
\* type, and reading .pattern or .name of it throws a TypeError.
TypeKnown(s) == s.currentSessionType \in KnownTypes

\* new Date(d).toDateString(): the local calendar day of the instant d
toDateString(d) == d \div DayLength

\* some record of the log is dated on the calendar day of currentDate
hasSession(log, currentDate) ==
    \E i \in 1..Len(log) :
        toDateString(log[i].date) = toDateString(currentDate)

\* the while (true) loop of calculateCurrentStreak
RECURSIVE streakLoop(_, _, _)
streakLoop(log, currentDate, count) ==
    IF hasSession(log, currentDate)
    THEN streakLoop(log, currentDate - DayLength, count + 1)
    ELSE count

\* the walk comparing the dates themselves instead of their calendar days
RECURSIVE streakLoopByInstant(_, _, _)
streakLoopByInstant(log, currentDate, count) ==
    IF \E i \in 1..Len(log) : log[i].date = currentDate
    THEN streakLoopByInstant(log, currentDate - DayLength, count + 1)
    ELSE count

calculateCurrentStreakByInstant(log, today) ==
    IF Len(log) = 0 THEN 0 ELSE streakLoopByInstant(log, today, 0)

\* the walk starting at yesterday when today has no record
calculateCurrentStreakFromYesterday(log, today) ==
    IF Len(log) = 0 THEN 0
    ELSE IF hasSession(log, today) THEN streakLoop(log, today, 0)
    ELSE streakLoop(log, today - DayLength, 0)

calculateCurrentStreak(log, today) ==
    IF Len(log) = 0 THEN 0 ELSE streakLoop(log, today, 0)

\* the thresholds of checkAchievements
FirstBreathAt            == 1
GettingStartedAt         == 10
DedicatedPractitionerAt  == 50
WeekWarriorAt            == 7

\* checkAchievements: the titles pushed to its achievements array, given the
\* log after the push and the clock
checkAchievements(log, today) ==
    {a \in {"First Breath"} : Len(log) = FirstBreathAt}
    \cup {a \in {"Getting Started"} : Len(log) = GettingStartedAt}
    \cup {a \in {"Dedicated Practitioner"} : Len(log) = DedicatedPractitionerAt}
    \cup {a \in {"Week Warrior"} :
              calculateCurrentStreak(log, today) = WeekWarriorAt}

\* saveSessionData(completed): the sessionData literal is built first (and
\* throws on an unknown type), then pushed to 'breathingSessions';
\* analytics.recordSession then reloads the log and recomputes the streak;
\* checkAchievements shows one notification per achievement it finds.
saveSessionData(s, completed) ==
    IF ~TypeKnown(s) THEN s
    ELSE LET s1 == [s EXCEPT !.sessions = Append(@,
                      [type            |-> s.currentSessionType,
                       startTime       |-> s.sessionStartTime,
                       duration        |-> s.sessionDuration - s.remainingTime,
                       plannedDuration |-> s.sessionDuration,
                       completed       |-> completed,
                       cycles          |-> s.cycleCount,
                       date            |-> s.now])]
         IN  [s1 EXCEPT
                !.streak = calculateCurrentStreak(s1.sessions, s1.now),
                !.notified = @ (+) SetToBag(checkAchievements(s1.sessions,
                                                              s1.now))]

\* clearInterval(this.sessionTimer); this.sessionTimer = null
\* (this.breathingTimer is never assigned, so its clearTimeout never runs)
clearSessionTimer(s) ==
    [s EXCEPT !.timers =
        LET X == {t \in Pending(@) : t.kind = "interval" /\ t.tracked}
        IN  IF X = {} THEN @ ELSE DelTimer(@, CHOOSE t \in X : TRUE)]

\* stopSession passing completed = true to saveSessionData
stopSessionSavesTrue(s) ==
    IF ~s.isActive THEN s
    ELSE LET s1 == clearSessionTimer(MarkInterrupted(s))
             s2 == [s1 EXCEPT !.isActive = FALSE, !.isPaused = FALSE,
                              !.currentPhase = "ready"]
         IN  saveSessionData(s2, TRUE)

\* stopSession without its "this.isPaused = false"
stopSessionKeepsPaused(s) ==
    IF ~s.isActive THEN s
    ELSE LET s1 == clearSessionTimer(MarkInterrupted(s))
             s2 == [s1 EXCEPT !.isActive = FALSE, !.currentPhase = "ready"]
         IN  saveSessionData(s2, FALSE)

stopSession(s) ==
    IF ~s.isActive THEN s
    ELSE LET s1 == clearSessionTimer(MarkInterrupted(s))
             s2 == [s1 EXCEPT !.isActive = FALSE, !.isPaused = FALSE,
                              !.currentPhase = "ready"]
         IN  saveSessionData(s2, FALSE)

\* completeSession without its "if (!this.isActive) return"
completeSessionNoGuard(s) ==
    LET s1 == clearSessionTimer(MarkInterrupted(s))
        s2 == [s1 EXCEPT !.isActive = FALSE, !.isPaused = FALSE,
                         !.currentPhase = "complete"]
        s3 == saveSessionData(s2, TRUE)
    IN  IF ~TypeKnown(s2) THEN s3
        ELSE [s3 EXCEPT !.timers = AddTimer(@,
                Timer("resetUI", ResetUIDelay, 0, NoValue, NoPat, FALSE,
                      s.sessionStartTime, 0))]

completeSession(s) ==
    IF ~s.isActive THEN s
    ELSE LET s1 == clearSessionTimer(MarkInterrupted(s))
             s2 == [s1 EXCEPT !.isActive = FALSE, !.isPaused = FALSE,
                              !.currentPhase = "complete"]
             s3 == saveSessionData(s2, TRUE)
         IN  IF ~TypeKnown(s2) THEN s3
             ELSE [s3 EXCEPT !.timers = AddTimer(@,
                     Timer("resetUI", ResetUIDelay, 0, NoValue, NoPat, FALSE,
                           s.sessionStartTime, 0))]

\* cycleBreathing up to its first await: guard, Inhale, delay(inhaleTime)
cycleBreathing(s, pat, owner) ==
    IF ~s.isActive \/ s.isPaused THEN s
    ELSE [s EXCEPT !.currentPhase = "inhale", !.emit = "inhale",
                   !.timers = AddTimer(@,
                       Timer("phase", pat[1], 0, "inhale", pat, FALSE,
                             owner, s.sessionStartTime))]

\* startBreathingCycle throws exactly when it gets past its guard with an
\* unknown session type
startBreathingCycleThrows(s) ==
    s.isActive /\ ~s.isPaused /\ ~TypeKnown(s)

startBreathingCycle(s, owner) ==
    IF ~s.isActive \/ s.isPaused THEN s
    ELSE IF ~TypeKnown(s) THEN s
    ELSE cycleBreathing([s EXCEPT !.currentPhase = "inhale"],
                        sessionTypes[s.currentSessionType], owner)

startSessionTimer(s, owner) ==
    [s EXCEPT !.timers =
        AddTimer(MapBag([t \in Pending(@) |-> [t EXCEPT !.tracked = FALSE]], @),
                 Timer("interval", TimerPeriod, 0, NoValue, NoPat, TRUE,
                       owner, 0))]

\* startSession without its "if (this.isActive) return"
startSessionNoGuard(s) ==
    [s EXCEPT !.isActive = TRUE, !.isPaused = FALSE,
              !.cycleCount = 0, !.fullCycles = 0,
              !.started = @ + 1,
              !.sessionStartTime = s.started + 1,
              !.remainingTime = s.sessionDuration,
              !.emit = "3",
              !.timers = AddTimer(@,
                  Timer("countdown", CountdownDelay, CountdownFrom,
                        NoValue, NoPat, FALSE, s.started + 1, 0))]

\* startSession up to the first await of startCountdown
startSession(s) ==
    IF s.isActive THEN s
    ELSE [s EXCEPT !.isActive = TRUE, !.isPaused = FALSE,
                   !.cycleCount = 0, !.fullCycles = 0,
                   !.started = @ + 1,
                   !.sessionStartTime = s.started + 1,
                   !.remainingTime = s.sessionDuration,
                   !.emit = "3",
                   !.timers = AddTimer(@,
                       Timer("countdown", CountdownDelay, CountdownFrom,
                             NoValue, NoPat, FALSE, s.started + 1, 0))]

\* startSession after startCountdown has returned: the rest of the try
\* block, and the catch block when something in it throws
afterCountdown(s, owner) ==
    IF startBreathingCycleThrows(s) THEN stopSession(s)
    ELSE LET s1 == startSessionTimer(startBreathingCycle(s, owner), owner)
         IN  IF TypeKnown(s1) THEN s1 ELSE stopSession(s1)

pauseSession(s) ==
    IF ~s.isActive \/ s.isPaused THEN s
    ELSE [MarkInterrupted(s) EXCEPT !.isPaused = TRUE]

resumeSession(s) ==
    IF ~s.isActive \/ ~s.isPaused THEN s
    ELSE startBreathingCycle([s EXCEPT !.isPaused = FALSE],
                             s.sessionStartTime)

selectSessionType(s, sessionType) ==
    IF sessionType \notin KnownTypes THEN s
    ELSE [s EXCEPT !.currentSessionType = sessionType]

updateSettings(s, newSettings) ==
    LET s1 == IF newSettings.defaultSession # NoValue
              THEN selectSessionType(s, newSettings.defaultSession)
              ELSE s
    IN  IF newSettings.sessionLength # 0
        THEN [s1 EXCEPT !.sessionDuration = newSettings.sessionLength]
        ELSE s1

\* App.handleAppHidden: isSessionActive() returns this.isActive
handleAppHidden(s) ==
    IF s.isActive THEN pauseSession(s) ELSE s

ResumePrompt == "Resume your breathing session?"

\* App.handleAppVisible evaluates this.breathing.isPaused().  The member
\* found under the name isPaused is the instance's own field, which the
\* constructor and every handler set to a boolean and which hides the
\* prototype's method of the same name; calling a boolean throws a TypeError
\* before the prompt is built.
handleAppVisible(s) ==
    IF s.isPaused \in BOOLEAN THEN [s EXCEPT !.emit = "TypeError"]
    ELSE IF s.isPaused[s] THEN [s EXCEPT !.emit = ResumePrompt]
    ELSE s

\* ---------------------------------------------------------- timer callbacks
\* the callback without its "if (this.isPaused) return"
sessionTimerTickNoPause(s, t) ==
    LET s0 == [s EXCEPT !.timers =
                 AddTimer(DelTimer(@, t), [t EXCEPT !.left = TimerPeriod])]
        s1 == [s0 EXCEPT !.remainingTime = @ - 1]
    IN  IF s1.remainingTime <= 0 THEN completeSession(s1) ELSE s1

\* the callback without its call of completeSession
sessionTimerTickNoCompletion(s, t) ==
    LET s0 == [s EXCEPT !.timers =
                 AddTimer(DelTimer(@, t), [t EXCEPT !.left = TimerPeriod])]
    IN  IF s0.isPaused THEN s0
        ELSE [s0 EXCEPT !.remainingTime = @ - 1]

\* the callback testing "remainingTime < 0" instead of "<= 0"
sessionTimerTickBelowZero(s, t) ==
    LET s0 == [s EXCEPT !.timers =
                 AddTimer(DelTimer(@, t), [t EXCEPT !.left = TimerPeriod])]
    IN  IF s0.isPaused THEN s0
        ELSE LET s1 == [s0 EXCEPT !.remainingTime = @ - 1]
             IN  IF s1.remainingTime < 0 THEN completeSession(s1) ELSE s1

\* the setInterval callback of startSessionTimer; t is the interval firing
sessionTimerTick(s, t) ==
    LET s0 == [s EXCEPT !.timers =
                 AddTimer(DelTimer(@, t), [t EXCEPT !.left = TimerPeriod])]
    IN  IF s0.isPaused THEN s0
        ELSE LET s1 == [s0 EXCEPT !.remainingTime = @ - 1]
             IN  IF s1.remainingTime <= 0 THEN completeSession(s1) ELSE s1

\* cycleBreathing without the "if (!this.isActive || this.isPaused) return"
\* that follows each await
phaseDelayElapsedNoCheck(s, t) ==
    LET s0 == [s EXCEPT !.timers = DelTimer(@, t)]
        next(pos, d) ==
            [s0 EXCEPT !.currentPhase = pos, !.emit = pos,
                       !.timers = AddTimer(@,
                           [t EXCEPT !.left = d, !.pos = pos,
                                     !.stale = FALSE])]
    IN  IF t.pos = "inhale" /\ t.pat[2] > 0 THEN next("hold", t.pat[2])
        ELSE IF t.pos \in {"inhale", "hold"} THEN next("exhale", t.pat[3])
        ELSE startBreathingCycle([s0 EXCEPT !.cycleCount = @ + 1], t.owner)

\* cycleBreathing resumed after one of its awaits; t is the elapsed delay
phaseDelayElapsed(s, t) ==
    LET s0 == [s EXCEPT !.timers = DelTimer(@, t)]
        next(pos, d) ==
            [s0 EXCEPT !.currentPhase = pos, !.emit = pos,
                       !.timers = AddTimer(@,
                           [t EXCEPT !.left = d, !.pos = pos,
                                     !.stale = FALSE])]
    IN  IF ~s0.isActive \/ s0.isPaused THEN s0
        ELSE IF t.pos = "inhale" /\ t.pat[2] > 0 THEN next("hold", t.pat[2])
        ELSE IF t.pos \in {"inhale", "hold"} THEN next("exhale", t.pat[3])
        ELSE LET s1 == [s0 EXCEPT
                          !.cycleCount = @ + 1,
                          !.fullCycles =
                              IF t.cyc = s0.sessionStartTime /\ ~t.broken
                              THEN @ + 1 ELSE @]
             IN  startBreathingCycle(s1, t.owner)

\* startCountdown resumed after its await; t is the elapsed delay
countdownElapsed(s, t) ==
    LET s0 == [s EXCEPT !.timers = DelTimer(@, t)]
    IN  IF t.i > 1
        THEN [s0 EXCEPT !.emit = ToString(t.i - 1),
                        !.timers = AddTimer(@, [t EXCEPT !.i = @ - 1,
                                                !.left = CountdownDelay])]
        ELSE afterCountdown(s0, t.owner)

\* the setTimeout callback of completeSession: resetUI touches the DOM only
resetUIElapsed(s, t) == [s EXCEPT !.timers = DelTimer(@, t)]

\* ------------------------------------------------------------------ actions
\* A handler that returns at its guard changes nothing: such a call is a
\* stuttering step, so a user operation is a step only when it takes effect.
UserOps(op) == op \in {"start", "pause", "resume", "stop", "select", "settings"}

Apply(op, s, stale) ==
    /\ UserOps(op) => (s # S /\ ops < MaxOps)
    /\ ops' = IF UserOps(op) THEN ops + 1 ELSE ops
    /\ isActive' = s.isActive
    /\ isPaused' = s.isPaused
    /\ currentPhase' = s.currentPhase
    /\ cycleCount' = s.cycleCount
    /\ sessionStartTime' = s.sessionStartTime
    /\ currentSessionType' = s.currentSessionType
    /\ sessionDuration' = s.sessionDuration
    /\ remainingTime' = s.remainingTime
    /\ timers' = s.timers
    /\ sessions' = s.sessions
    /\ started' = s.started
    /\ now' = s.now
    /\ streak' = s.streak
    /\ notified' = s.notified
    /\ UNCHANGED firebaseVars
    /\ fullCycles' = s.fullCycles
    /\ last' = [op |-> op, emit |-> s.emit, stale |-> stale]

\* the FirebaseConfig instance after its constructor, before init() is called
FirebaseConstructed ==
    /\ firebaseConfig = [isInitialized |-> FALSE, isConnected |-> FALSE,
                         offlineQueue |-> <<>>]
    /\ firebaseTasks = [init |-> "ready", online |-> FALSE, runs |-> {}]
    /\ firestore = [queued |-> 0, executed |-> EmptyBag, finished |-> <<>>]

Due(kind) == {t \in Pending(timers) : t.kind = kind /\ t.left = 0}

\* the controller after its constructor and init() -> loadUserPreferences(),
\* with settings.defaultSession = type and settings.sessionLength = length
Constructed(type, length) ==
    [isActive |-> FALSE, isPaused |-> FALSE, currentPhase |-> "ready",
     cycleCount |-> 0, sessionStartTime |-> 0,
     currentSessionType |-> type, sessionDuration |-> length,
     remainingTime |-> 0, timers |-> EmptyBag, sessions |-> <<>>,
     started |-> 0, now |-> 0, streak |-> 0, notified |-> EmptyBag,
     fullCycles |-> 0, emit |-> NoValue]

\* the variables hold the state record s
Holds(s) ==
    /\ isActive = s.isActive
    /\ isPaused = s.isPaused
    /\ currentPhase = s.currentPhase
    /\ cycleCount = s.cycleCount
    /\ sessionStartTime = s.sessionStartTime
    /\ currentSessionType = s.currentSessionType
    /\ sessionDuration = s.sessionDuration
    /\ remainingTime = s.remainingTime
    /\ timers = s.timers
    /\ sessions = s.sessions
    /\ started = s.started
    /\ now = s.now
    /\ streak = s.streak
    /\ notified = s.notified
    /\ fullCycles = s.fullCycles

Init ==
    /\ \E type \in SelectableTypes \cup {UnknownType}, length \in SessionLengths :
          Holds(Constructed(type, length))
    /\ FirebaseConstructed
    /\ ops = 0
    /\ last = [op |-> "init", emit |-> NoValue, stale |-> FALSE]

StartSession ==
    /\ ~isActive
    /\ Apply("start", startSession(S), FALSE)

PauseSession ==
    /\ isActive /\ ~isPaused
    /\ Apply("pause", pauseSession(S), FALSE)

ResumeSession ==
    /\ isActive /\ isPaused
    /\ Apply("resume", resumeSession(S), FALSE)

StopSession ==
    /\ isActive
    /\ Apply("stop", stopSession(S), FALSE)

SelectSessionType ==
    \E sessionType \in SelectableTypes \cup {UnknownType} :
        Apply("select", selectSessionType(S, sessionType), FALSE)

UpdateSettings ==
    \E ds \in SelectableTypes \cup {NoValue}, sl \in SessionLengths \cup {0} :
        /\ ds # NoValue \/ sl # 0
        /\ Apply("settings",
                 updateSettings(S, [defaultSession |-> ds, sessionLength |-> sl]),
                 FALSE)

CountdownElapsed ==
    \E t \in Due("countdown") : Apply("countdown", countdownElapsed(S, t), FALSE)

PhaseDelayElapsed ==
    \E t \in Due("phase") : Apply("phase", phaseDelayElapsed(S, t), t.stale)

SessionTimerTick ==
    \E t \in Due("interval") : Apply("interval", sessionTimerTick(S, t), FALSE)

ResetUIElapsed ==
    \E t \in Due("resetUI") : Apply("resetUI", resetUIElapsed(S, t), FALSE)

\* one second passes; no callback is overdue
AdvanceTime ==
    /\ Pending(timers) # {}
    /\ \A t \in Pending(timers) : t.left > 0
    /\ remainingTime > -MaxOverrun
    /\ timers' = MapBag([t \in Pending(timers) |-> [t EXCEPT !.left = @ - 1]],
                        timers)
    /\ last' = [op |-> "time", emit |-> NoValue, stale |-> FALSE]
    /\ UNCHANGED <<isActive, isPaused, currentPhase, cycleCount,
                   sessionStartTime, currentSessionType, sessionDuration,
                   remainingTime, sessions, started, now, streak, notified,
                   firebaseVars, ops, fullCycles>>

Next ==
    \/ StartSession
    \/ PauseSession
    \/ ResumeSession
    \/ StopSession
    \/ SelectSessionType
    \/ UpdateSettings
    \/ CountdownElapsed
    \/ PhaseDelayElapsed
    \/ SessionTimerTick
    \/ ResetUIElapsed
    \/ AdvanceTime

Spec == Init /\ [][Next]_vars

\* The timer table is fair: a second always passes, and a callback that is
\* due is run.  The user is under no obligation to do anything.
Fairness ==
    /\ WF_vars(AdvanceTime)
    /\ WF_vars(CountdownElapsed)
    /\ WF_vars(PhaseDelayElapsed)
    /\ WF_vars(SessionTimerTick)
    /\ WF_vars(ResetUIElapsed)

\* One session followed from its start: the state right after the first
\* startSession() of a controller loaded with a known session type, then the
\* session operations and the timer table.
SessionInit ==
    /\ \E type \in SelectableTypes, length \in SessionLengths :
          Holds(startSession(Constructed(type, length)))
    /\ FirebaseConstructed
    /\ ops = 1
    /\ last = [op |-> "start", emit |-> "3", stale |-> FALSE]

SessionNext ==
    \/ PauseSession
    \/ ResumeSession
    \/ StopSession
    \/ CountdownElapsed
    \/ PhaseDelayElapsed
    \/ SessionTimerTick
    \/ ResetUIElapsed
    \/ AdvanceTime

FairSpec == SessionInit /\ [][SessionNext]_vars /\ Fairness

\* The preset is chosen between sessions only: a session card is clicked
\* while no session is active, and the settings are left alone.
SelectWhileIdle ==
    /\ ~isActive
    /\ SelectSessionType

FixedPresetNext ==
    \/ StartSession
    \/ PauseSession
    \/ ResumeSession
    \/ StopSession
    \/ SelectWhileIdle
    \/ CountdownElapsed
    \/ PhaseDelayElapsed
    \/ SessionTimerTick
    \/ ResetUIElapsed
    \/ AdvanceTime

FixedPresetSpec == Init /\ [][FixedPresetNext]_vars

\* One session left to itself: a freshly loaded controller is started once
\* and neither paused nor stopped.
FirstStart ==
    /\ started = 0
    /\ StartSession

ExampleInit ==
    /\ \E type \in SelectableTypes, length \in ExampleLengths :
          Holds(Constructed(type, length))
    /\ FirebaseConstructed
    /\ ops = 0
    /\ last = [op |-> "init", emit |-> NoValue, stale |-> FALSE]

ExampleNext ==
    \/ FirstStart
    \/ CountdownElapsed
    \/ PhaseDelayElapsed
    \/ SessionTimerTick
    \/ ResetUIElapsed
    \/ AdvanceTime

ExampleSpec == ExampleInit /\ [][ExampleNext]_vars

\* The session log over the days.  A session ends, by stopSession
\* (completed = FALSE) or by the session timer (TRUE), and its saveSessionData
\* call appends the record dated now; the clock moves on; the analytics
\* section reloads the log.  The run of a session is followed in Spec.
SessionSaved ==
    /\ ~isActive
    /\ Len(sessions) < MaxRecords
    /\ \E completed \in BOOLEAN : Apply("save", saveSessionData(S, completed), FALSE)

ClockTick ==
    /\ now < (MaxDay + 1) * DayLength - 1
    /\ now' = now + 1
    /\ last' = [op |-> "clock", emit |-> NoValue, stale |-> FALSE]
    /\ UNCHANGED <<isActive, isPaused, currentPhase, cycleCount,
                   sessionStartTime, currentSessionType, sessionDuration,
                   remainingTime, timers, sessions, started, streak, notified,
                   firebaseVars, ops, fullCycles>>

\* AnalyticsController.loadAnalyticsData -> calculateAnalytics
LoadAnalyticsData ==
    /\ streak' = calculateCurrentStreak(sessions, now)
    /\ last' = [op |-> "analytics", emit |-> NoValue, stale |-> FALSE]
    /\ UNCHANGED <<isActive, isPaused, currentPhase, cycleCount,
                   sessionStartTime, currentSessionType, sessionDuration,
                   remainingTime, timers, sessions, started, now, notified,
                   firebaseVars, ops, fullCycles>>

StreakInit ==
    /\ \E type \in SelectableTypes, length \in SessionLengths :
          Holds(Constructed(type, length))
    /\ FirebaseConstructed
    /\ ops = 0
    /\ last = [op |-> "init", emit |-> NoValue, stale |-> FALSE]

StreakNext ==
    \/ SessionSaved
    \/ ClockTick
    \/ LoadAnalyticsData

StreakSpec == StreakInit /\ [][StreakNext]_vars

\* The log of a regular practice: sessions are finished (stopped or run to
\* completion) one after the other, and the days pass.
SessionFinished ==
    /\ ~isActive
    /\ Len(sessions) < MaxPractices
    /\ Apply("save", saveSessionData(S, TRUE), FALSE)

DayPasses ==
    /\ toDateString(now) < MaxPracticeDay
    /\ now' = now + DayLength
    /\ last' = [op |-> "clock", emit |-> NoValue, stale |-> FALSE]
    /\ UNCHANGED <<isActive, isPaused, currentPhase, cycleCount,
                   sessionStartTime, currentSessionType, sessionDuration,
                   remainingTime, timers, sessions, started, streak, notified,
                   firebaseVars, ops, fullCycles>>

AchievementNext ==
    \/ SessionFinished
    \/ DayPasses

AchievementSpec == StreakInit /\ [][AchievementNext]_vars

\* One session of an app whose page is hidden and shown again: the
\* visibilitychange listener calls handleAppHidden or handleAppVisible.
HandleAppHidden ==
    /\ isActive /\ ~isPaused
    /\ Apply("hidden", handleAppHidden(S), FALSE)

HandleAppVisible ==
    LET s == handleAppVisible(S)
    IN  /\ s.emit # NoValue
        /\ Apply("visible", s, FALSE)

VisibilityNext ==
    \/ PauseSession
    \/ ResumeSession
    \/ StopSession
    \/ CountdownElapsed
    \/ PhaseDelayElapsed
    \/ SessionTimerTick
    \/ ResetUIElapsed
    \/ AdvanceTime
    \/ HandleAppHidden
    \/ HandleAppVisible

VisibilitySpec == SessionInit /\ [][VisibilityNext]_vars

\* ------------------------------------------------------- the offline queue
\* firebaseConfig  isInitialized, isConnected, offlineQueue: the fields
\* firebaseTasks   init: "ready" before init() is called, "services" while it
\*                 awaits initializeFirebaseServices(), then "done";
\*                 online: the window 'online' listener is registered;
\*                 runs: the suspended processOfflineQueue calls, each with
\*                 its local array operations and the index it awaits at
\* firestore       history. queued: operations queued so far (an operation is
\*                 named by its number); executed: bag of the operations the
\*                 backend executed; finished: the operations array of the
\*                 run that returned in the last step, <<>> if none did
\* The state record at the entry of a handler:
F ==
    [config |-> firebaseConfig, tasks |-> firebaseTasks,
     store |-> [firestore EXCEPT !.finished = <<>>]]

\* the operations a suspended run has not settled yet
Held(run) ==
    {run.operations[i] : i \in run.at..Len(run.operations)}

Elems(q) == {q[i] : i \in 1..Len(q)}

InQueue(f) == Elems(f.config.offlineQueue)

setupOfflineMode(f) ==
    [f EXCEPT !.config.isConnected = FALSE, !.config.isInitialized = TRUE]

queueOfflineOperation(f) ==
    LET op == f.store.queued + 1
    IN  [f EXCEPT !.config.offlineQueue = Append(@, op), !.store.queued = op]

\* processOfflineQueue without its "this.offlineQueue = []"
processOfflineQueueKeepsQueue(f) ==
    IF ~f.config.isConnected \/ Len(f.config.offlineQueue) = 0 THEN f
    ELSE [f EXCEPT !.tasks.runs = @ \cup
                      {[operations |-> f.config.offlineQueue, at |-> 1]}]

\* processOfflineQueue up to its first await
processOfflineQueue(f) ==
    IF ~f.config.isConnected \/ Len(f.config.offlineQueue) = 0 THEN f
    ELSE [f EXCEPT !.config.offlineQueue = <<>>,
                   !.tasks.runs = @ \cup
                      {[operations |-> f.config.offlineQueue, at |-> 1]}]

\* the loop of processOfflineQueue without the push in its catch block
processOfflineQueueResumedNoRequeue(f, run, ok) ==
    LET operation == run.operations[run.at]
        f1 == IF ok
              THEN [f EXCEPT !.store.executed = @ (+) SetToBag({operation})]
              ELSE f
        rest == f1.tasks.runs \ {run}
    IN  IF run.at < Len(run.operations)
        THEN [f1 EXCEPT !.tasks.runs = rest \cup {[run EXCEPT !.at = @ + 1]}]
        ELSE [f1 EXCEPT !.tasks.runs = rest,
                        !.store.finished = run.operations]

\* the loop of processOfflineQueue resumed after its await: the awaited
\* executeOfflineOperation(operation) has resolved (ok) or rejected
processOfflineQueueResumed(f, run, ok) ==
    LET operation == run.operations[run.at]
        f1 == IF ok
              THEN [f EXCEPT !.store.executed = @ (+) SetToBag({operation})]
              ELSE [f EXCEPT !.config.offlineQueue = Append(@, operation)]
        rest == f1.tasks.runs \ {run}
    IN  IF run.at < Len(run.operations)
        THEN [f1 EXCEPT !.tasks.runs = rest \cup {[run EXCEPT !.at = @ + 1]}]
        ELSE [f1 EXCEPT !.tasks.runs = rest,
                        !.store.finished = run.operations]

\* init() up to its first await.  sdk: the firebase global is defined,
\* getFirebaseConfig() returns and validateConfig accepts what it returns,
\* and initializeApp does not throw
init(f, sdk) ==
    IF ~sdk THEN [setupOfflineMode(f) EXCEPT !.tasks.init = "done"]
    ELSE [f EXCEPT !.tasks.init = "services"]

\* init() resumed after "await this.initializeFirebaseServices()", which has
\* resolved (ok) or rejected; setupFirebaseListeners registers the listener
initResumed(f, ok) ==
    IF ~ok THEN [setupOfflineMode(f) EXCEPT !.tasks.init = "done"]
    ELSE processOfflineQueue(
             [f EXCEPT !.tasks.online = TRUE, !.tasks.init = "done",
                       !.config.isInitialized = TRUE,
                       !.config.isConnected = TRUE])

\* the listener of the window's 'online' event
onlineListener(f) ==
    IF f.config.isConnected THEN processOfflineQueue(f) ELSE f

FirebaseApply(f) ==
    /\ firebaseConfig' = f.config
    /\ firebaseTasks' = f.tasks
    /\ firestore' = f.store
    /\ UNCHANGED <<isActive, isPaused, currentPhase, cycleCount,
                   sessionStartTime, currentSessionType, sessionDuration,
                   remainingTime, timers, sessions, started, now, streak,
                   notified, ops, fullCycles, last>>

\* DOMContentLoaded: firebaseConfig.init()
FirebaseInit ==
    /\ firebaseTasks.init = "ready"
    /\ \E sdk \in BOOLEAN : FirebaseApply(init(F, sdk))

ServicesInitialized ==
    /\ firebaseTasks.init = "services"
    /\ \E ok \in BOOLEAN : FirebaseApply(initResumed(F, ok))

\* createUser, updateUser, saveSession, saveAnalyticsEvent, saveUserSettings
\* and the offline firestore's set, update and add: queue when not connected
QueueOperation ==
    /\ ~firebaseConfig.isConnected
    /\ firestore.queued < MaxQueued
    /\ FirebaseApply(queueOfflineOperation(F))

\* the browser regains its network; a call that returns at its guard is a
\* stuttering step
OnlineEvent ==
    /\ firebaseTasks.online
    /\ onlineListener(F).tasks # firebaseTasks
    /\ FirebaseApply(onlineListener(F))

\* the awaited operation resolves: the backend has executed it
OperationExecuted ==
    /\ firebaseTasks.runs # {}
    /\ \E run \in firebaseTasks.runs :
          FirebaseApply(processOfflineQueueResumed(F, run, TRUE))

\* the awaited operation rejects
OperationRejected ==
    /\ firebaseTasks.runs # {}
    /\ \E run \in firebaseTasks.runs :
          FirebaseApply(processOfflineQueueResumed(F, run, FALSE))

QueueInit ==
    /\ Holds(Constructed("calm", ExampleLength))
    /\ FirebaseConstructed
    /\ ops = 0
    /\ last = [op |-> "init", emit |-> NoValue, stale |-> FALSE]

QueueNext ==
    \/ FirebaseInit
    \/ ServicesInitialized
    \/ QueueOperation
    \/ OnlineEvent
    \/ OperationExecuted
    \/ OperationRejected

QueueSpec == QueueInit /\ [][QueueNext]_vars

\* Connectivity returns: init() and the awaited calls make progress, the
\* 'online' event is delivered to whoever listens for it, and an operation
\* that is tried again and again is accepted by the backend in the end.
ConnectedFairness ==
    /\ WF_vars(FirebaseInit)
    /\ WF_vars(ServicesInitialized)
    /\ WF_vars(OnlineEvent)
    /\ WF_vars(OperationExecuted \/ OperationRejected)
    /\ SF_vars(OperationExecuted)

ConnectedSpec == QueueInit /\ [][QueueNext]_vars /\ ConnectedFairness

\* ------------------------------------------------------------------ claims
PhaseEvents == {"inhale", "hold", "exhale"}

RecordsOf(n) == {i \in 1..Len(sessions) : sessions[i].startTime = n}

\* the step ends the active session
SessionEnds == isActive /\ ~isActive'

\* C1: every session started with a known preset appends exactly one record,
\* at the step that ends it (stop or timer expiry, whatever pauses and resumes
\* came before); no other step appends; the log never holds two records of
\* one session nor a record of the session still running; and stopSession
\* called while no session is active returns at once, changing nothing.
C1_OneRecordPerSession ==
    /\ [](/\ \A n \in 1..started : Cardinality(RecordsOf(n)) <= 1
          /\ isActive => RecordsOf(sessionStartTime) = {}
          /\ ~isActive => stopSession(S) = S)
    /\ [][/\ (SessionEnds /\ TypeKnown(S)) =>
                /\ Len(sessions') = Len(sessions) + 1
                /\ SubSeq(sessions', 1, Len(sessions)) = sessions
                /\ sessions'[Len(sessions')].startTime = sessionStartTime
          /\ ~SessionEnds => sessions' = sessions]_vars

C1_Witness ==
    /\ ~isActive
    /\ Len(sessions) = 2
    /\ sessions[1].completed
    /\ ~sessions[2].completed
    /\ sessions[1].startTime = 1
    /\ sessions[2].startTime = 2

\* C2: startSession called while a session is active (in countdown, cycling
\* or paused) returns the state unchanged, and while a session is active no
\* step begins another one: the start timestamp never changes under it.
C2_StartWhileActiveIsNoop ==
    /\ [](isActive => startSession(S) = S)
    /\ [][isActive => /\ sessionStartTime' = sessionStartTime
                      /\ started' = started]_vars

C2_Witness ==
    /\ isActive
    /\ isPaused
    /\ InCountdown(S)
    /\ startSession(S) = S

\* C3: the step that stops or completes a session leaves no timer of that
\* session pending.
C3_NothingPendingAfterEnd ==
    [][SessionEnds =>
        \A t \in Pending(timers') : t.owner # sessionStartTime]_vars

\* C4: a phase loop whose suspension saw the status leave Cycling exits when
\* its delay elapses: it emits no phase and leaves the cycle count alone.
C4_InterruptedLoopExits ==
    [][(last'.op = "phase" /\ last'.stale) =>
        /\ last'.emit = NoValue
        /\ cycleCount' = cycleCount]_vars

\* C5: while the sequencer stays Idle no phase event is emitted and the cycle
\* count does not change, whatever delays were pending when the session ended.
C5_NoPhaseEventWhileIdle ==
    [][(~isActive /\ ~isActive') =>
        /\ last'.emit \notin PhaseEvents
        /\ cycleCount' = cycleCount]_vars

C5_Witness ==
    /\ ~isActive
    /\ started > 0
    /\ last.op = "phase"

\* C6: a session-timer tick taken while the sequencer is Idle or in Countdown
\* does not decrement remainingTime.
C6_NoTickOutsideCycling ==
    [][(last'.op = "interval" /\ Status(S) \in {"Idle", "Countdown"}) =>
        remainingTime' = remainingTime]_vars

\* C7: from a paused state no step changes remainingTime (so it is the same
\* at resume as at pause), and a session-timer tick neither ends the session
\* nor appends a record.
C7_PausedTimeFrozen ==
    [][isPaused =>
        /\ remainingTime' = remainingTime
        /\ last'.op = "interval" => (isActive' /\ isPaused' /\ sessions' = sessions)]_vars

C7_Witness ==
    /\ isPaused
    /\ last.op = "interval"
    /\ ~InCountdown(S)
    /\ remainingTime < sessionDuration

EndedBy(n, completed) ==
    \E i \in RecordsOf(n) : sessions[i].completed = completed

\* C8: a session that is Cycling is, unless the user stops or pauses it,
\* eventually completed by the session timer: a tick ends it, its record is
\* appended with completed = TRUE, and the sequencer is Idle again.
C8_CyclingLeadsToCompletion ==
    (Status(S) = "Cycling")
        ~> \/ /\ ~isActive
              /\ last.op = "interval"
              /\ EndedBy(sessionStartTime, TRUE)
           \/ last.op = "stop"
           \/ isPaused

C8_Witness ==
    /\ ~isActive
    /\ last.op = "interval"
    /\ EndedBy(sessionStartTime, TRUE)
    /\ remainingTime = 0
    /\ cycleCount > 0

\* C9: a record appended by a timer tick has completed = TRUE and is appended
\* with remainingTime at or below zero; a record appended by stopSession has
\* completed = FALSE; nothing else appends records.
C9_CompletedFlag ==
    [][sessions' # sessions =>
        LET r == sessions'[Len(sessions')]
        IN  \/ last'.op = "interval" /\ r.completed /\ remainingTime' <= 0
            \/ last'.op = "stop" /\ ~r.completed]_vars

C9_Witness ==
    /\ Len(sessions) = 2
    /\ ~sessions[1].completed
    /\ sessions[2].completed
    /\ last.op = "interval"

\* C10: the cycle count of the active session is the number of complete,
\* uninterrupted Inhale-(Hold)-Exhale sequences emitted in that session.
C10_CycleCountIsFullCycles == isActive => cycleCount = fullCycles

\* the hold duration of the selected preset
HoldTime(s) == sessionTypes[s.currentSessionType][2]

\* C11: in a session whose preset has hold > 0 the phase events come in the
\* repeating order Inhale, Hold, Exhale: a Hold directly follows an Inhale, an
\* Exhale directly follows a Hold (never an Inhale), and an Inhale follows
\* an Exhale.  Checked on the steps taken while Cycling; currentPhase is the
\* phase event emitted before the step.
C11_PhaseOrder ==
    [][(Status(S) = "Cycling" /\ TypeKnown(S) /\ HoldTime(S) > 0
            /\ last'.emit \in PhaseEvents) =>
        /\ last'.emit = "hold" => currentPhase = "inhale"
        /\ last'.emit = "exhale" => currentPhase = "hold"
        /\ last'.emit = "inhale" => currentPhase = "exhale"]_vars

\* C12: while a session runs with a preset whose hold is 0, no Hold event is
\* emitted and currentPhase is never hold.
C12_NoHoldWithoutHoldTime ==
    (isActive /\ TypeKnown(S) /\ HoldTime(S) = 0) =>
        (last.emit # "hold" /\ currentPhase # "hold")

\* C13: pauseSession takes effect only from Cycling; called while Idle, in
\* Countdown or already Paused it changes nothing (such a call is a
\* stuttering step, so every pause step starts in Cycling).
C13_PauseOnlyFromCycling ==
    [][last'.op = "pause" => Status(S) = "Cycling"]_vars

\* C14: resumeSession from a pause taken in a phase sets the status to
\* Cycling and restarts the loop at that phase: it emits the phase that was
\* current at the pause and leaves currentPhase as it was.
C14_ResumeAtCurrentPhase ==
    [][(last'.op = "resume" /\ ~InCountdown(S)
            /\ currentPhase \in PhaseEvents) =>
        /\ Status(S') = "Cycling"
        /\ currentPhase' = currentPhase
        /\ last'.emit = currentPhase]_vars

\* C15: with a session type that is not a key of sessionTypes no session is
\* ever under way: the controller is Idle, no countdown or timer is pending
\* and the log has no record.
C15_UnknownPresetNeverStarts ==
    ~TypeKnown(S) =>
        /\ ~isActive
        /\ Pending(timers) = {}
        /\ sessions = <<>>

\* the loop variable of the countdown the session s is waiting in
CountdownAt(s) ==
    (CHOOSE t \in Pending(s.timers) :
        t.kind = "countdown" /\ t.owner = s.sessionStartTime).i

\* C16: a start that takes effect resets the cycle count and the elapsed
\* time and shows 3; while the countdown lasts the ticks go down by one, no
\* phase event is emitted and the cycle count stays; and the session enters
\* Cycling by the step that ends the countdown, which emits the first Inhale.
C16_CountdownThenInhale ==
    [][/\ last'.op = "start" =>
            /\ cycleCount' = 0
            /\ sessionDuration' - remainingTime' = 0
            /\ last'.emit = ToString(CountdownFrom)
            /\ Status(S') = "Countdown"
       /\ (isActive /\ InCountdown(S) /\ isActive' /\ InCountdown(S')) =>
            /\ last'.emit \notin PhaseEvents
            /\ cycleCount' = cycleCount
            /\ CountdownAt(S') # CountdownAt(S) =>
                   /\ CountdownAt(S') = CountdownAt(S) - 1
                   /\ last'.emit = ToString(CountdownAt(S'))
       /\ (Status(S) = "Countdown" /\ Status(S') = "Cycling") =>
            /\ last'.op = "countdown"
            /\ CountdownAt(S) = 1
            /\ last'.emit = "inhale"]_vars

\* the worked example: preset calm (inhale 4, hold 0, exhale 4), 12 seconds
IsExample ==
    /\ currentSessionType = "calm"
    /\ sessionDuration = ExampleLength
    /\ started = 1

\* C17 as stated: the example session completes with one cycle counted, and
\* its second cycle (cycleCount = 1) never emits Exhale, whichever of the
\* phase delay and the session timer fires first.
C17_SecondCycleNeverExhales ==
    IsExample =>
        /\ cycleCount <= 1
        /\ cycleCount = 1 => last.emit # "exhale"
        /\ (~isActive /\ sessions # <<>>) =>
               (sessions[1].completed /\ sessions[1].cycles = 1)

\* C17 amended: the example session counts one cycle, its second cycle opens
\* with Inhale, and completes naturally 12 ticks after it entered Cycling with
\* cycles = 1 in its record; the second cycle emits Exhale only when its
\* Inhale delay fires before the twelfth tick due at that same instant
\* (remainingTime is still 1), and nothing is emitted after completion.
C17_ExhaleOnlyAtLastInstant ==
    IsExample =>
        /\ cycleCount <= 1
        /\ (isActive /\ cycleCount = 1) =>
               /\ currentPhase \in {"inhale", "exhale"}
               /\ currentPhase = "exhale" => remainingTime = 1
        /\ ~isActive =>
               /\ last.emit \notin PhaseEvents
               /\ Len(sessions) = 1
               /\ sessions[1].completed
               /\ sessions[1].cycles = 1
               /\ sessions[1].duration = ExampleLength

C17_Witness ==
    /\ IsExample
    /\ ~isActive
    /\ last.op = "interval"
    /\ sessions[1].completed
    /\ sessions[1].cycles = 1

\* the calendar days that have a record, and those with a completed one
DaysWith(log) == {toDateString(log[i].date) : i \in 1..Len(log)}

DaysCompleted(log) ==
    {toDateString(log[i].date) : i \in {j \in 1..Len(log) : log[j].completed}}

Today == toDateString(now)

\* the length of the run of consecutive days of D that ends at day
TrailingRun(D, day) ==
    CHOOSE k \in 0..(day + 1) :
        /\ \A j \in 0..(k - 1) : (day - j) \in D
        /\ (day - k) \notin D

\* the streak has just been computed from the log as it is now
StreakFresh == last.op \in {"analytics", "save"}

\* C18: the streak computed from a log is the length of the run of
\* consecutive calendar days ending today that each have a record, however
\* many records a day has; it is 0 for an empty log.
C18_StreakIsTrailingRun ==
    StreakFresh =>
        /\ streak = TrailingRun(DaysWith(sessions), Today)
        /\ sessions = <<>> => streak = 0

C18_Witness ==
    /\ last.op = "analytics"
    /\ Today = 3
    /\ Len(sessions) = 4
    /\ DaysWith(sessions) = {1, 2, 3}
    /\ streak = 3

C20_OnlyCompletedCount ==
    StreakFresh => streak = TrailingRun(DaysCompleted(sessions), Today)

\* the phase delays that are pending
PhaseDelays == {t \in Pending(timers) : t.kind = "phase"}

\* C22: at most one phase loop is live: while the session is active and not
\* paused, so that an expiring phase delay emits a phase event or increments
\* the cycle count, there is never more than one phase delay pending.
C22_OneLivePhaseLoop ==
    (isActive /\ ~isPaused) => SumCopies(PhaseDelays, timers) <= 1

\* C23: remainingTime decreases by one per elapsed second of an unpaused
\* session: two firings of the session timer with no second passing between
\* them do not both decrement it, so a session that is neither paused nor
\* stopped does not complete before its duration has elapsed.
C23_OneDecrementPerSecond ==
    [][(/\ last.op = "interval" /\ last'.op = "interval"
        /\ isActive /\ ~isPaused /\ isActive')
       => remainingTime' = remainingTime]_vars

\* C24: every record of the log has 0 <= duration <= plannedDuration, and
\* duration = plannedDuration when it is completed.
C24_DurationWithinPlanned ==
    \A i \in 1..Len(sessions) :
        /\ 0 <= sessions[i].duration
        /\ sessions[i].duration <= sessions[i].plannedDuration
        /\ sessions[i].completed
              => sessions[i].duration = sessions[i].plannedDuration

\* C25: the preset of a session is fixed when it starts: at the step that
\* ends a session and appends its record, the phase durations of the type
\* written in the record are the ones every pending phase delay of that
\* session was scheduled with.
C25_PresetFixedAtStart ==
    [][\A t \in PhaseDelays :
          (/\ SessionEnds
           /\ t.cyc = sessionStartTime
           /\ Len(sessions') = Len(sessions) + 1)
          => sessionTypes[sessions'[Len(sessions')].type] = t.pat]_vars

\* C30: isPaused implies isActive in every reachable state: the paused flag
\* is never set while no session is active, and stopSession and
\* completeSession clear it.
C30_PausedImpliesActive == isPaused => isActive

\* a session has been paused
C30_Witness == isPaused /\ isActive /\ last.op = "pause"


\* C29: each achievement notification (First Breath, Getting Started,
\* Dedicated Practitioner, Week Warrior) is shown at most once, over any
\* sequence of finished sessions appended to a log that starts empty.
C29_AchievementShownOnce ==
    \A a \in BagToSet(notified) : notified[a] <= 1

\* C26: when the page is hidden during an active, unpaused session the
\* session is paused; when the page becomes visible while the session is
\* paused the app offers Resume and Stop without error, and the session stays
\* paused with the same remaining time and no record is appended.
C26_HiddenPausesVisibleOffers ==
    [][/\ (last'.op = "hidden" /\ isActive /\ ~isPaused) => isPaused'
       /\ (last'.op = "visible" /\ isActive /\ isPaused)
             => /\ last'.emit = ResumePrompt
                /\ isActive' /\ isPaused'
                /\ remainingTime' = remainingTime
                /\ sessions' = sessions]_vars

\* the operations queued so far
Queued == 1..firestore.queued

\* C21: every operation placed in the offline queue is eventually executed
\* against the backend once connectivity returns, the operations queued
\* after init() fell back to offline mode included.
C21_QueuedIsEventuallyExecuted ==
    \A op \in 1..MaxQueued :
        (op \in InQueue(F)) ~> (BagIn(op, firestore.executed))

\* the operations of the run that has just finished
Finished == Elems(firestore.finished)

\* C27 as stated: after a processOfflineQueue run has finished, every
\* operation it took from the queue has been executed or is in the queue
\* again; and a run changes nothing when the backend is not connected.
C27_FinishedRunExecutedOrQueued ==
    /\ \A op \in Finished :
          BagIn(op, firestore.executed) \/ op \in InQueue(F)
    /\ ~firebaseConfig.isConnected => processOfflineQueue(F) = F

\* C27: after a run has finished, every operation queued so far, those the
\* run took from the queue and those queued while it ran included, has been
\* executed, is in the queue, or is held by another run still in progress;
\* and a run changes nothing when the backend is not connected.
C27_NoOperationLost ==
    /\ firestore.finished # <<>>
          => \A op \in Queued :
                \/ BagIn(op, firestore.executed)
                \/ op \in InQueue(F)
                \/ \E run \in firebaseTasks.runs : op \in Held(run)
    /\ ~firebaseConfig.isConnected => processOfflineQueue(F) = F

\* a run has finished while an operation it had re-queued is held by a
\* second run
C27_Witness ==
    \E op \in Finished :
        /\ ~BagIn(op, firestore.executed)
        /\ \E run \in firebaseTasks.runs : op \in Held(run)

\* C28: no queued operation is executed successfully more than once, even
\* when processOfflineQueue runs overlap.
C28_ExecutedAtMostOnce ==
    \A op \in Queued : CopiesIn(op, firestore.executed) <= 1

\* two runs are suspended at once and an operation has been executed
C28_Witness ==
    /\ Cardinality(firebaseTasks.runs) >= 2
    /\ firestore.executed # EmptyBag

====
